---- MODULE Spec2Model ----
(***************************************************************************)
(* Model of the MuseTalk serverless worker (src/handler.py): the job       *)
(* pipeline handler(job) = validate -> fetch image -> fetch audio ->       *)
(* synthesize -> publish, its scratch directory and its result contract.   *)
(*                                                                         *)
(* Logging (print, traceback.print_exc) is not modelled: it changes no     *)
(* state of the pipeline.  Every call into the environment (HTTP, files,   *)
(* subprocesses, object storage) has its outcome chosen nondeterministically*)
(* among the outcomes the call can have.                                   *)
(***************************************************************************)
EXTENDS Naturals, Sequences, FiniteSets, TLC

(***************************************************************************)
(* Bounds of the model.                                                    *)
(***************************************************************************)
\* Number of jobs the host scheduler hands to the worker in one behaviour.
MaxJobs == 2
\* Largest number of video files the inference script leaves in the result
\* directory.
MaxVideos == 2

(***************************************************************************)
(* Python values.  A value carries its type, as isinstance would see it.   *)
(***************************************************************************)
PyNone == [t |-> "NoneType"]
PyStr(s) == [t |-> "str", v |-> s]
PyDict(d) == [t |-> "dict", v |-> d]
EmptyDict == [k \in {} |-> PyNone]

\* Truthy with the test "v is not None" in place of truthiness.
Truthy_IsNotNone(v) == v.t # "NoneType"

\* bool(v): None, "" and {} are falsy.
Truthy(v) ==
    CASE v.t = "NoneType" -> FALSE
      [] v.t = "str" -> v.v # ""
      [] v.t = "dict" -> DOMAIN v.v # {}
      [] OTHER -> TRUE

\* Only a dict has .get; on any other object the attribute lookup raises.
HasGet(obj) == obj.t = "dict"

\* obj.get(key, default) for a dict obj.
Get(obj, key, default) == IF key \in DOMAIN obj.v THEN obj.v[key] ELSE default

\* str(e) of the AttributeError raised by obj.get on a non-dict.
AttributeErrorText(obj) == "'" \o obj.t \o "' object has no attribute 'get'"

\* f"{v}" of a value.
Format(v) == IF v.t = "str" THEN v.v ELSE v.t

(***************************************************************************)
(* Configuration (module level) and the inputs the model draws from.       *)
(***************************************************************************)
WORKSPACE == "/workspace/MuseTalk"
MODEL_DIR == "/workspace/MuseTalk/models/musetalk"

\* Texts an exception or a subprocess's error stream can carry.
Details == {"d1", "d2"}

\* Values a URL field of the job input can hold.
UrlValues == {PyNone, PyStr(""), PyStr("http://host/file")}

\* The "input" mappings: each URL key absent or holding one of UrlValues.
InputDicts ==
    UNION {[K -> UrlValues] : K \in SUBSET {"input_image_url", "input_audio_url"}}

\* What the key "input" can hold when present: null, a non-mapping, a mapping.
InputValues == {PyNone, PyStr("text")} \cup {PyDict(d) : d \in InputDicts}

\* Job descriptors: a non-mapping, or a mapping with "id" and "input" each
\* absent or present.
Jobs ==
    {PyNone}
    \cup {PyDict(EmptyDict), PyDict("id" :> PyStr("j1"))}
    \cup {PyDict("input" :> i) : i \in InputValues}
    \cup {PyDict(("id" :> PyStr("j1")) @@ ("input" :> i)) : i \in InputValues}

\* Environment variables read by the worker; each is unset or set.
EnvValues ==
    [BUCKET_ENDPOINT_URL |-> "https://e1",
     BUCKET_ACCESS_KEY_ID |-> "AK1",
     BUCKET_SECRET_ACCESS_KEY |-> "SK1",
     RUNPOD_S3_ACCESS_KEY |-> "AK2",
     RUNPOD_S3_SECRET_KEY |-> "SK2",
     RUNPOD_S3_ENDPOINT |-> "https://e2",
     RUNPOD_S3_BUCKET |-> "b1"]

Environments == {[k \in K |-> EnvValues[k]] : K \in SUBSET DOMAIN EnvValues}

\* os.getenv(name, default); None is modelled as the empty string, which the
\* code treats the same way (not value).
Getenv(e, name, default) == IF name \in DOMAIN e THEN e[name] ELSE default

(***************************************************************************)
(* Results.                                                                *)
(***************************************************************************)
NoResult == [none |-> TRUE]
ErrorResult(msg) == [error |-> msg]
SuccessResult(url, id) ==
    [output_video_url |-> url, status |-> "completed", model |-> "musetalk",
     job_id |-> id]

\* The exception classes the outermost "except Exception" clause catches.
CaughtByHandler == {"AttributeError", "OSError"}

\* OuterExcept that returns the text of the exception without the prefix.
OuterExcept_NoPrefix(cls, msg) ==
    IF cls \in CaughtByHandler THEN [error |-> msg] ELSE [none |-> TRUE]

\* OuterExcept with a clause that names OSError only.
OuterExcept_OnlyOSError(cls, msg) ==
    IF cls = "OSError" THEN [error |-> "Handler error: " \o msg] ELSE [none |-> TRUE]

\* handler's outermost except clause (lines 262-266): the result for an
\* exception of class cls with text msg, or NoResult when it is not caught.
OuterExcept(cls, msg) ==
    IF cls \in CaughtByHandler THEN ErrorResult("Handler error: " \o msg) ELSE NoResult

VARIABLES
    env,        \* os.environ of the worker process
    sysPath,    \* entries handler code has inserted at the head of sys.path
    fsDirs,     \* scratch directories that exist on disk
    jobs,       \* number of jobs dispatched so far
    pc,         \* position of the handler
    job,        \* the job descriptor being handled
    job_id, image_url, audio_url,   \* locals of handler
    error,      \* local of handler: the error half of the last stage's outcome
    temp_dir,   \* scratch directory of this invocation (0: none created)
    endpoint_url,   \* endpoint the storage client was created for
    client_keys,    \* access/secret pair boto3.client was called with
                    \* (<<>>: boto3.client was not called)
    result,     \* value of the return statement executed inside the inner try
    returned,   \* what the host scheduler receives from handler
    escaped,    \* an exception propagated out of handler
    log         \* history of this invocation: the side effects of handler
                \* and what the environment answered, in order

vars == <<env, sysPath, fsDirs, jobs, pc, job, job_id, image_url, audio_url,
          error, temp_dir, endpoint_url, client_keys, result, returned, escaped, log>>

locals == <<job_id, image_url, audio_url>>

Init ==
    /\ env \in Environments
    /\ sysPath = <<>>
    /\ fsDirs = {}
    /\ jobs = 0
    /\ pc = "idle"
    /\ job = PyNone
    /\ job_id = PyNone
    /\ image_url = PyNone
    /\ audio_url = PyNone
    /\ error = PyNone
    /\ temp_dir = 0
    /\ endpoint_url = ""
    /\ client_keys = <<>>
    /\ result = NoResult
    /\ returned = NoResult
    /\ escaped = FALSE
    /\ log = <<>>

\* The host scheduler calls handler(j).
Dispatch ==
    /\ pc = "idle"
    /\ jobs < MaxJobs
    /\ \E j \in Jobs : job' = j
    /\ jobs' = jobs + 1
    /\ pc' = "validate"
    /\ job_id' = PyNone
    /\ image_url' = PyNone
    /\ audio_url' = PyNone
    /\ error' = PyNone
    /\ temp_dir' = 0
    /\ endpoint_url' = ""
    /\ client_keys' = <<>>
    /\ result' = NoResult
    /\ returned' = NoResult
    /\ escaped' = FALSE
    /\ log' = <<>>
    /\ UNCHANGED <<env, sysPath, fsDirs>>

\* handler returns r to the host, or lets an exception escape (r = NoResult).
Leave(r) ==
    /\ returned' = r
    /\ escaped' = (r = NoResult)
    /\ pc' = "done"

\* ValidateInputs without the check of input_audio_url.
ValidateInputs_AudioUnchecked(j) ==
    IF ~HasGet(j)
    THEN [exc |-> TRUE, cls |-> "AttributeError", msg |-> AttributeErrorText(j)]
    ELSE LET job_input == Get(j, "input", PyDict(EmptyDict))
         IN IF ~HasGet(job_input)
            THEN [exc |-> TRUE, cls |-> "AttributeError",
                  msg |-> AttributeErrorText(job_input)]
            ELSE LET img == Get(job_input, "input_image_url", PyNone)
                 IN IF ~Truthy(img)
                    THEN [exc |-> FALSE, ret |-> TRUE,
                          val |-> ErrorResult("input_image_url is required")]
                    ELSE [exc |-> FALSE, ret |-> FALSE,
                          id |-> Get(j, "id", PyStr("unknown")), img |-> img,
                          aud |-> Get(job_input, "input_audio_url", PyNone)]

\* Lines 186-201: read the job descriptor and check the required fields.
\* [exc]: an exception was raised; [ret]: a return statement was reached;
\* otherwise the locals are set and the handler goes on to mkdtemp.
ValidateInputs(j) ==
    IF ~HasGet(j)
    THEN [exc |-> TRUE, cls |-> "AttributeError", msg |-> AttributeErrorText(j)]
    ELSE LET job_input == Get(j, "input", PyDict(EmptyDict))
             id == Get(j, "id", PyStr("unknown"))
         IN IF ~HasGet(job_input)
            THEN [exc |-> TRUE, cls |-> "AttributeError",
                  msg |-> AttributeErrorText(job_input)]
            ELSE LET img == Get(job_input, "input_image_url", PyNone)
                     aud == Get(job_input, "input_audio_url", PyNone)
                 IN IF ~Truthy(img)
                    THEN [exc |-> FALSE, ret |-> TRUE,
                          val |-> ErrorResult("input_image_url is required")]
                    ELSE IF ~Truthy(aud)
                    THEN [exc |-> FALSE, ret |-> TRUE,
                          val |-> ErrorResult("input_audio_url is required")]
                    ELSE [exc |-> FALSE, ret |-> FALSE, id |-> id,
                          img |-> img, aud |-> aud]

Validate ==
    /\ pc = "validate"
    /\ LET v == ValidateInputs(job)
       IN IF v.exc
          THEN /\ Leave(OuterExcept(v.cls, v.msg))
               /\ UNCHANGED locals
          ELSE IF v.ret
          THEN /\ Leave(v.val)
               /\ UNCHANGED locals
          ELSE /\ job_id' = v.id
               /\ image_url' = v.img
               /\ audio_url' = v.aud
               /\ pc' = "mkdtemp"
               /\ UNCHANGED <<returned, escaped>>
    /\ UNCHANGED <<env, sysPath, fsDirs, jobs, job, error, temp_dir,
                   endpoint_url, client_keys, result, log>>

\* Line 204: tempfile.mkdtemp creates a fresh directory, or raises OSError.
Mkdtemp ==
    /\ pc = "mkdtemp"
    /\ \/ /\ temp_dir' = jobs
          /\ fsDirs' = fsDirs \cup {jobs}
          /\ log' = Append(log, "mkdtemp")
          /\ pc' = "download_image"
          /\ UNCHANGED <<returned, escaped>>
       \/ /\ \E d \in Details : Leave(OuterExcept("OSError", d))
          /\ UNCHANGED <<temp_dir, fsDirs, log>>
    /\ UNCHANGED <<env, sysPath, jobs, job, locals, error, endpoint_url, client_keys, result>>

(***************************************************************************)
(* Steps of handler inside the inner try (lines 207-252).                  *)
(***************************************************************************)
\* A return statement inside the inner try: the value is kept while the
\* finally clause runs.
ReturnInTry(r) ==
    /\ result' = r
    /\ pc' = "finally"

\* StageErrorResult with the image message used for the audio stage too.
StageErrorResult_AudioAsImage(stage, err) ==
    CASE stage \in {"image", "audio"} -> ErrorResult("Failed to download image: " \o err)
      [] OTHER -> ErrorResult(err)

\* Lines 214, 221, 233, 243: the result handler returns for the error text
\* err of a stage.
StageErrorResult(stage, err) ==
    CASE stage = "image" -> ErrorResult("Failed to download image: " \o err)
      [] stage = "audio" -> ErrorResult("Failed to download audio: " \o err)
      [] OTHER -> ErrorResult(err)

\* AfterStage that runs a failed stage again.
AfterStage_RetryOnError(stage, r, next) ==
    /\ error' = r.error
    /\ UNCHANGED result
    /\ IF Truthy(r.error)
       THEN pc' = CASE stage = "image" -> "download_image"
                    [] stage = "audio" -> "download_audio"
                    [] stage = "synthesis" -> "generate"
                    [] OTHER -> "upload"
       ELSE pc' = next

\* AfterStage without the "if error: return".
AfterStage_IgnoresError(stage, r, next) ==
    /\ error' = r.error
    /\ pc' = next
    /\ UNCHANGED result

\* Lines 210-214, 217-221, 225-233, 239-243: handler unpacks the outcome r
\* of a stage into (value, error); an error returns, otherwise handler goes
\* on at position next.
AfterStage(stage, r, next) ==
    /\ error' = r.error
    /\ IF Truthy(r.error)
       THEN ReturnInTry(StageErrorResult(stage, r.error.v))
       ELSE pc' = next /\ UNCHANGED result

\* The outcome (value, error) of a stage.
Ok(value) == [value |-> value, error |-> PyNone]
Err(msg) == [value |-> PyNone, error |-> PyStr(msg)]

(***************************************************************************)
(* Content fetcher: download_file (lines 24-45).                           *)
(***************************************************************************)
\* What requests.get and the streamed write can do: complete, or raise
\* requests.exceptions.Timeout, another RequestException, or anything else.
DownloadOutcomes ==
    {[kind |-> "ok", msg |-> ""]}
    \cup {[kind |-> k, msg |-> m] :
            k \in {"Timeout", "RequestException", "Exception"}, m \in Details}

\* The path os.path.join(temp_dir, name).
PathJoin(d, name) == [dir |-> d, name |-> name]

\* DownloadFile with the RequestException clause ahead of the Timeout clause
\* (Timeout is a RequestException).
DownloadFile_TimeoutAsFailure(local_path, o) ==
    CASE o.kind = "ok" -> Ok(local_path)
      [] o.kind \in {"Timeout", "RequestException"} -> Err("Download failed: " \o o.msg)
      [] OTHER -> Err("Unexpected download error: " \o o.msg)

\* download_file(url, local_path) under outcome o.
DownloadFile(local_path, o) ==
    CASE o.kind = "ok" -> Ok(local_path)
      [] o.kind = "Timeout" -> Err("Download timeout after 60 seconds")
      [] o.kind = "RequestException" -> Err("Download failed: " \o o.msg)
      [] OTHER -> Err("Unexpected download error: " \o o.msg)

\* Line 210 up to the blocking requests.get of line 28.
DownloadImageStart ==
    /\ pc = "download_image"
    /\ log' = Append(log, "fetch_image")
    /\ pc' = "image_pending"
    /\ UNCHANGED <<env, sysPath, fsDirs, jobs, job, locals, error, temp_dir,
                   endpoint_url, client_keys, result, returned, escaped>>

\* Lines 210-214: the image download ends (at the latest at its timeout).
DownloadImageEnd ==
    /\ pc = "image_pending"
    /\ \E o \in DownloadOutcomes :
         /\ AfterStage("image", DownloadFile(PathJoin(temp_dir, "input.png"), o),
                       "download_audio")
         /\ log' = Append(log, "image_" \o o.kind)
    /\ UNCHANGED <<env, sysPath, fsDirs, jobs, job, locals, temp_dir,
                   endpoint_url, client_keys, returned, escaped>>

\* Line 217 up to the blocking requests.get of line 28.
DownloadAudioStart ==
    /\ pc = "download_audio"
    /\ log' = Append(log, "fetch_audio")
    /\ pc' = "audio_pending"
    /\ UNCHANGED <<env, sysPath, fsDirs, jobs, job, locals, error, temp_dir,
                   endpoint_url, client_keys, result, returned, escaped>>

\* Lines 217-221: the audio download ends (at the latest at its timeout).
DownloadAudioEnd ==
    /\ pc = "audio_pending"
    /\ \E o \in DownloadOutcomes :
         /\ AfterStage("audio", DownloadFile(PathJoin(temp_dir, "input.wav"), o),
                       "generate")
         /\ log' = Append(log, "audio_" \o o.kind)
    /\ UNCHANGED <<env, sysPath, fsDirs, jobs, job, locals, temp_dir,
                   endpoint_url, client_keys, returned, escaped>>

(***************************************************************************)
(* Synthesis engine: generate_video_musetalk (lines 87-179).               *)
(***************************************************************************)
\* Outcomes of "import torch": it loads, raises ImportError, or raises
\* another exception.
ImportOutcomes ==
    {[kind |-> "ok", msg |-> ""]}
    \cup {[kind |-> k, msg |-> m] : k \in {"ImportError", "Exception"}, m \in Details}

\* Outcomes of a library call that either works or raises an exception.
CallOutcomes ==
    {[kind |-> "ok", msg |-> ""]} \cup {[kind |-> "Exception", msg |-> m] : m \in Details}

\* Outcomes of a started subprocess.run: the process exits with a return
\* code (and text on its error stream), or is killed at the timeout.
RunOutcomes ==
    {[kind |-> "exit", code |-> 0, text |-> ""],
     [kind |-> "TimeoutExpired", code |-> 0, text |-> ""]}
    \cup {[kind |-> "exit", code |-> 1, text |-> m] : m \in Details}

\* SelectStrategy without the check of the model directory.
SelectStrategy_NoModelCheck(modelDirExists, torch, scriptExists) ==
    IF torch.kind = "ImportError"
    THEN [ret |-> TRUE, inserted |-> FALSE,
          error |-> "MuseTalk import failed: " \o torch.msg]
    ELSE IF torch.kind = "Exception"
    THEN [ret |-> TRUE, inserted |-> FALSE,
          error |-> "Video generation error: " \o torch.msg]
    ELSE IF scriptExists
    THEN [ret |-> FALSE, inserted |-> TRUE, cmd |-> "inference"]
    ELSE [ret |-> FALSE, inserted |-> TRUE, cmd |-> "ffmpeg"]

\* SelectStrategy with the test of the inference script inverted.
SelectStrategy_Inverted(modelDirExists, torch, scriptExists) ==
    IF ~modelDirExists
    THEN [ret |-> TRUE, inserted |-> FALSE,
          error |-> "MuseTalk models not found - run model download first"]
    ELSE IF torch.kind = "ImportError"
    THEN [ret |-> TRUE, inserted |-> FALSE,
          error |-> "MuseTalk import failed: " \o torch.msg]
    ELSE IF torch.kind = "Exception"
    THEN [ret |-> TRUE, inserted |-> FALSE,
          error |-> "Video generation error: " \o torch.msg]
    ELSE IF ~scriptExists
    THEN [ret |-> FALSE, inserted |-> TRUE, cmd |-> "inference"]
    ELSE [ret |-> FALSE, inserted |-> TRUE, cmd |-> "ffmpeg"]

\* Lines 98-116 and 147: what generate_video_musetalk does before it runs a
\* subprocess.  [ret]: it returns [error]; otherwise [cmd] is the command it
\* goes on to run.  [inserted]: sys.path.insert (line 108) was executed.
SelectStrategy(modelDirExists, torch, scriptExists) ==
    IF ~modelDirExists
    THEN [ret |-> TRUE, inserted |-> FALSE,
          error |-> "MuseTalk models not found - run model download first"]
    ELSE IF torch.kind = "ImportError"
    THEN [ret |-> TRUE, inserted |-> FALSE,
          error |-> "MuseTalk import failed: " \o torch.msg]
    ELSE IF torch.kind = "Exception"
    THEN [ret |-> TRUE, inserted |-> FALSE,
          error |-> "Video generation error: " \o torch.msg]
    ELSE IF scriptExists
    THEN [ret |-> FALSE, inserted |-> TRUE, cmd |-> "inference"]
    ELSE [ret |-> FALSE, inserted |-> TRUE, cmd |-> "ffmpeg"]

\* What the filesystem holds when generate_video_musetalk is called.
WorldFacts(modelDirExists, scriptExists) ==
    <<IF modelDirExists THEN "model_dir_present" ELSE "model_dir_absent",
      IF scriptExists THEN "script_present" ELSE "script_absent">>

\* Lines 225-233 up to the blocking subprocess.run (line 128 or 166).
\* spawn: subprocess.run starts the process, or raises before one exists.
GenerateStart ==
    /\ pc = "generate"
    /\ \E modelDirExists \in BOOLEAN, torch \in ImportOutcomes,
          scriptExists \in BOOLEAN, spawn \in CallOutcomes :
         LET s == SelectStrategy(modelDirExists, torch, scriptExists)
             seen == log \o <<"synthesize">> \o WorldFacts(modelDirExists, scriptExists)
         IN /\ sysPath' = IF s.inserted THEN <<WORKSPACE>> \o sysPath ELSE sysPath
            /\ IF s.ret
               THEN /\ AfterStage("synthesis", Err(s.error), "upload")
                    /\ log' = seen
               ELSE IF spawn.kind # "ok"
               THEN /\ AfterStage("synthesis",
                                  Err("Video generation error: " \o spawn.msg), "upload")
                    /\ log' = seen
               ELSE /\ pc' = s.cmd \o "_pending"
                    /\ log' = Append(seen, "spawn_" \o s.cmd)
                    /\ UNCHANGED <<result, error>>
    /\ UNCHANGED <<env, fsDirs, jobs, job, locals, temp_dir, endpoint_url, client_keys,
                   returned, escaped>>

\* Lines 128-145 and 176-179: the outcome of the primary strategy once the
\* inference process has ended.  videos: number of *.mp4 files found in the
\* result directory; move: outcome of shutil.move.
PrimaryResult(output_path, run, videos, move) ==
    IF run.kind = "TimeoutExpired"
    THEN Err("Video generation timeout (>5 minutes)")
    ELSE IF run.code # 0
    THEN Err("MuseTalk inference failed: " \o run.text)
    ELSE IF videos = 0
    THEN Err("No output video generated")
    ELSE IF move.kind # "ok"
    THEN Err("Video generation error: " \o move.msg)
    ELSE Ok(output_path)

\* FallbackResult with the test of the return code inverted.
FallbackResult_CodeInverted(output_path, run, decode) ==
    IF run.kind = "TimeoutExpired"
    THEN Err("Video generation timeout (>5 minutes)")
    ELSE IF run.code = 0
    THEN IF decode.kind = "ok"
         THEN Err("FFmpeg test video failed: " \o run.text)
         ELSE Err("Video generation error: " \o decode.msg)
    ELSE Ok(output_path)

\* Lines 166-171 and 176-179: the outcome of the fallback strategy once
\* ffmpeg has ended.  decode: outcome of result.stderr.decode().
FallbackResult(output_path, run, decode) ==
    IF run.kind = "TimeoutExpired"
    THEN Err("Video generation timeout (>5 minutes)")
    ELSE IF run.code # 0
    THEN IF decode.kind = "ok"
         THEN Err("FFmpeg test video failed: " \o run.text)
         ELSE Err("Video generation error: " \o decode.msg)
    ELSE Ok(output_path)

\* Events of the history for a synthesis outcome r of strategy cmd.
SynthesisEvents(cmd, run, r) ==
    <<cmd \o "_" \o run.kind>>
    \o (IF run.kind = "exit" THEN <<"returncode_" \o ToString(run.code)>> ELSE <<>>)
    \o (IF Truthy(r.error) THEN <<>> ELSE <<"synth_ok">>)

\* The inference subprocess ends (exit, or kill at the 300 s timeout).
InferenceEnd ==
    /\ pc = "inference_pending"
    /\ \E run \in RunOutcomes, videos \in 0..MaxVideos, move \in CallOutcomes :
         LET r == PrimaryResult(PathJoin(temp_dir, "output.mp4"), run, videos, move)
         IN /\ AfterStage("synthesis", r, "upload")
            /\ log' = log \o SynthesisEvents("inference", run, r)
    /\ UNCHANGED <<env, sysPath, fsDirs, jobs, job, locals, temp_dir,
                   endpoint_url, client_keys, returned, escaped>>

\* The ffmpeg subprocess ends (exit, or kill at the 60 s timeout).
FfmpegEnd ==
    /\ pc = "ffmpeg_pending"
    /\ \E run \in RunOutcomes, decode \in CallOutcomes :
         LET r == FallbackResult(PathJoin(temp_dir, "output.mp4"), run, decode)
         IN /\ AfterStage("synthesis", r, "upload")
            /\ log' = log \o SynthesisEvents("ffmpeg", run, r)
    /\ UNCHANGED <<env, sysPath, fsDirs, jobs, job, locals, temp_dir,
                   endpoint_url, client_keys, returned, escaped>>

(***************************************************************************)
(* Artifact publisher: upload_to_s3 (lines 47-85).                         *)
(***************************************************************************)
\* ResolveCredentials that falls back only when both primary values are
\* unset ("and" in place of "or" at line 57).
ResolveCredentials_AndForOr(e) ==
    LET endpoint == Getenv(e, "BUCKET_ENDPOINT_URL", "https://storage.runpod.io")
        access == Getenv(e, "BUCKET_ACCESS_KEY_ID", "")
        secret == Getenv(e, "BUCKET_SECRET_ACCESS_KEY", "")
    IN IF access = "" /\ secret = ""
       THEN [access |-> Getenv(e, "RUNPOD_S3_ACCESS_KEY", ""),
             secret |-> Getenv(e, "RUNPOD_S3_SECRET_KEY", ""),
             endpoint |-> Getenv(e, "RUNPOD_S3_ENDPOINT", endpoint)]
       ELSE [access |-> access, secret |-> secret, endpoint |-> endpoint]

\* Lines 53-61: the endpoint and the access/secret pair the upload uses.
ResolveCredentials(e) ==
    LET endpoint == Getenv(e, "BUCKET_ENDPOINT_URL", "https://storage.runpod.io")
        access == Getenv(e, "BUCKET_ACCESS_KEY_ID", "")
        secret == Getenv(e, "BUCKET_SECRET_ACCESS_KEY", "")
    IN IF access = "" \/ secret = ""
       THEN [access |-> Getenv(e, "RUNPOD_S3_ACCESS_KEY", ""),
             secret |-> Getenv(e, "RUNPOD_S3_SECRET_KEY", ""),
             endpoint |-> Getenv(e, "RUNPOD_S3_ENDPOINT", endpoint)]
       ELSE [access |-> access, secret |-> secret, endpoint |-> endpoint]

\* Line 236.
Bucket(e) == Getenv(e, "RUNPOD_S3_BUCKET", "flowsmartly-avatars")

\* Line 237.
ObjectName(id) == "musetalk/" \o Format(id) \o ".mp4"

\* PublicUrl without the bucket.
PublicUrl_NoBucket(endpoint, bucket, object_name) == endpoint \o "/" \o object_name

\* Line 79.
PublicUrl(endpoint, bucket, object_name) ==
    endpoint \o "/" \o bucket \o "/" \o object_name

\* Lines 50-74: what upload_to_s3 does before the blocking upload_file call.
\* boto: outcome of the imports; client: outcome of boto3.client.
\* [ret]: it returns [error]; [events]: what it did.
PrepareUpload(e, boto, client) ==
    LET c == ResolveCredentials(e)
    IN IF boto.kind # "ok"
       THEN [ret |-> TRUE, error |-> "S3 upload failed: " \o boto.msg,
             events |-> <<"boto3_import_failed">>, endpoint |-> "", keys |-> <<>>]
       ELSE IF c.access = "" \/ c.secret = ""
       THEN [ret |-> TRUE, error |-> "S3 credentials not configured",
             events |-> <<>>, endpoint |-> "", keys |-> <<>>]
       ELSE IF client.kind # "ok"
       THEN [ret |-> TRUE, error |-> "S3 upload failed: " \o client.msg,
             events |-> <<"s3_client">>, endpoint |-> c.endpoint,
             keys |-> <<c.access, c.secret>>]
       ELSE [ret |-> FALSE, events |-> <<"s3_client", "upload_file">>,
             endpoint |-> c.endpoint, keys |-> <<c.access, c.secret>>]

\* Lines 236-239 and 50-76 up to the blocking upload_file call.
UploadStart ==
    /\ pc = "upload"
    /\ \E boto \in CallOutcomes, client \in CallOutcomes :
         LET u == PrepareUpload(env, boto, client)
         IN /\ log' = log \o <<"publish">> \o u.events
            /\ endpoint_url' = u.endpoint
            /\ client_keys' = u.keys
            /\ IF u.ret
               THEN AfterStage("publish", Err(u.error), "upload_pending")
               ELSE pc' = "upload_pending" /\ UNCHANGED <<result, error>>
    /\ UNCHANGED <<env, sysPath, fsDirs, jobs, job, locals, temp_dir,
                   returned, escaped>>

\* UploadResult with the halves of the returned pair swapped on success.
UploadResult_SwappedPair(endpoint, bucket, object_name, o) ==
    IF o.kind = "ok"
    THEN Err(PublicUrl(endpoint, bucket, object_name))
    ELSE Err("S3 upload failed: " \o o.msg)

\* Lines 76-85: upload_to_s3 once upload_file has completed or raised.
UploadResult(endpoint, bucket, object_name, o) ==
    IF o.kind = "ok"
    THEN Ok(PublicUrl(endpoint, bucket, object_name))
    ELSE Err("S3 upload failed: " \o o.msg)

\* Lines 76-85 and 239-252: upload_file completes or raises; no timeout is
\* set for it.  On success handler returns the success result.
UploadEnd ==
    /\ pc = "upload_pending"
    /\ \E o \in CallOutcomes :
         LET r == UploadResult(endpoint_url, Bucket(env), ObjectName(job_id), o)
         IN /\ error' = r.error
            /\ log' = Append(log, IF o.kind = "ok" THEN "uploaded" ELSE "upload_failed")
            /\ IF Truthy(r.error)
               THEN ReturnInTry(StageErrorResult("publish", r.error.v))
               ELSE ReturnInTry(SuccessResult(r.value, job_id))
    /\ UNCHANGED <<env, sysPath, fsDirs, jobs, job, locals, temp_dir,
                   endpoint_url, client_keys, returned, escaped>>

\* Rmtree that removes nothing.
Rmtree_Noop(dirs, d, ok) == dirs

\* shutil.rmtree(temp_dir) inside try / except: pass (lines 256-260): the
\* directories left on disk when the removal succeeds (ok) or raises.
Rmtree(dirs, d, ok) == IF ok THEN dirs \ {d} ELSE dirs

\* Finally without the try / except around shutil.rmtree: a removal fault
\* replaces the pending return and reaches the outermost except clause.
Finally_RemovalFaultPropagates ==
    /\ pc = "finally"
    /\ \E ok \in BOOLEAN, d \in Details :
         /\ fsDirs' = Rmtree(fsDirs, temp_dir, ok)
         /\ log' = IF ok THEN Append(log, "rmtree") ELSE log \o <<"rmtree", "rmtree_raised">>
         /\ IF ok THEN Leave(result) ELSE Leave(OuterExcept("OSError", d))
    /\ UNCHANGED <<env, sysPath, jobs, job, locals, error, temp_dir, endpoint_url,
                   client_keys, result>>

\* Lines 254-260: the finally clause of the inner try, then the pending
\* return statement completes.
Finally ==
    /\ pc = "finally"
    /\ \E ok \in BOOLEAN :
         /\ fsDirs' = Rmtree(fsDirs, temp_dir, ok)
         /\ log' = IF ok THEN Append(log, "rmtree") ELSE log \o <<"rmtree", "rmtree_raised">>
    /\ Leave(result)
    /\ UNCHANGED <<env, sysPath, jobs, job, locals, error, temp_dir, endpoint_url, client_keys,
                   result>>

\* The host scheduler takes the result; the worker waits for the next job.
HostReceives ==
    /\ pc = "done"
    /\ pc' = "idle"
    /\ UNCHANGED <<env, sysPath, fsDirs, jobs, job, locals, error, temp_dir,
                   endpoint_url, client_keys, result, returned, escaped, log>>

Next ==
    \/ Dispatch
    \/ Validate
    \/ Mkdtemp
    \/ DownloadImageStart
    \/ DownloadImageEnd
    \/ DownloadAudioStart
    \/ DownloadAudioEnd
    \/ GenerateStart
    \/ InferenceEnd
    \/ FfmpegEnd
    \/ UploadStart
    \/ UploadEnd
    \/ Finally
    \/ HostReceives

Spec == Init /\ [][Next]_vars
(***************************************************************************)
(* Fairness.  handler is a sequential program: a step that can be taken is *)
(* taken.  A call that waits for the outside world ends for certain only   *)
(* where the code bounds it: requests.get(timeout=60) and                  *)
(* subprocess.run(timeout=300 / 60).  upload_file is given no timeout, so  *)
(* nothing makes UploadEnd happen.  The host dispatches jobs as it likes.  *)
(***************************************************************************)
Fairness ==
    /\ WF_vars(Validate)
    /\ WF_vars(Mkdtemp)
    /\ WF_vars(DownloadImageStart)
    /\ WF_vars(DownloadImageEnd)
    /\ WF_vars(DownloadAudioStart)
    /\ WF_vars(DownloadAudioEnd)
    /\ WF_vars(GenerateStart)
    /\ WF_vars(InferenceEnd)
    /\ WF_vars(FfmpegEnd)
    /\ WF_vars(UploadStart)
    /\ WF_vars(Finally)
    /\ WF_vars(HostReceives)

FairSpec == Spec /\ Fairness

(***************************************************************************)
(* Vocabulary of the properties.                                           *)
(***************************************************************************)
Has(e) == \E i \in 1..Len(log) : log[i] = e
Count(e) == Cardinality({i \in 1..Len(log) : log[i] = e})

IsErrorShape(r) == DOMAIN r = {"error"}
IsSuccessShape(r) ==
    /\ DOMAIN r = {"output_video_url", "status", "model", "job_id"}
    /\ r.status = "completed"
    /\ r.model = "musetalk"

\* The job descriptor, read as data: the field is absent, null or empty in
\* a mapping "input", or "input" itself is absent.
FieldMissing(j, field) ==
    /\ j.t = "dict"
    /\ \/ "input" \notin DOMAIN j.v
       \/ /\ j.v["input"].t = "dict"
          /\ \/ field \notin DOMAIN j.v["input"].v
             \/ j.v["input"].v[field] \in {PyNone, PyStr("")}

FieldGiven(j, field) ==
    /\ j.t = "dict"
    /\ "input" \in DOMAIN j.v
    /\ j.v["input"].t = "dict"
    /\ field \in DOMAIN j.v["input"].v
    /\ j.v["input"].v[field] \notin {PyNone, PyStr("")}

StageEvents == {"fetch_image", "fetch_audio", "synthesize", "publish"}
StageOrder == <<"fetch_image", "fetch_audio", "synthesize", "publish">>
IsStageEvent(e) == e \in StageEvents
StageStarts == SelectSeq(log, IsStageEvent)

\* C1: whatever the job descriptor and whatever the stages do, handler
\* returns a result of one of the two shapes and no exception leaves it;
\* before it returns, the host has received nothing.
C1_ResultContract ==
    /\ pc = "done" =>
         /\ ~escaped
         /\ IsErrorShape(returned) \/ IsSuccessShape(returned)
         /\ ~(IsErrorShape(returned) /\ IsSuccessShape(returned))
    /\ pc \notin {"done", "idle"} => returned = NoResult /\ ~escaped

\* A job whose "input" is null was answered with an error result.
C1_Witness ==
    /\ pc = "done"
    /\ job = PyDict("input" :> PyNone)
    /\ returned = ErrorResult("Handler error: 'NoneType' object has no attribute 'get'")

C3_MissingImage ==
    pc = "done" /\ FieldMissing(job, "input_image_url") =>
        /\ returned = ErrorResult("input_image_url is required")
        /\ log = <<>>
        /\ temp_dir = 0

\* A job with an empty image URL and a valid audio URL was rejected.
C3_Witness ==
    /\ pc = "done"
    /\ job = PyDict("input" :> PyDict([input_image_url |-> PyStr(""),
                                       input_audio_url |-> PyStr("http://host/file")]))
    /\ returned = ErrorResult("input_image_url is required")

\* C4: nothing is created, fetched or run before both required fields have
\* been checked; a job with an image URL and no audio URL is answered with
\* {error: "input_audio_url is required"} with no directory and no fetch.
C4_ValidationFirst ==
    /\ log # <<>> \/ temp_dir # 0 =>
         /\ FieldGiven(job, "input_image_url")
         /\ FieldGiven(job, "input_audio_url")
         /\ pc # "validate"
    /\ pc = "done" /\ FieldGiven(job, "input_image_url")
                   /\ FieldMissing(job, "input_audio_url") =>
         /\ returned = ErrorResult("input_audio_url is required")
         /\ log = <<>>
         /\ temp_dir = 0

\* A job with an image URL and no audio URL was rejected.
C4_Witness ==
    /\ pc = "done"
    /\ FieldGiven(job, "input_image_url")
    /\ FieldMissing(job, "input_audio_url")
    /\ returned = ErrorResult("input_audio_url is required")
    /\ log = <<>>

\* C5: the stages start in the order fetch-image, fetch-audio, synthesize,
\* publish, each at most once, after validation, and each only after the
\* stage before it succeeded; an upload only after all of them succeeded.
C5_StageOrder ==
    /\ Len(StageStarts) <= Len(StageOrder)
    /\ StageStarts = SubSeq(StageOrder, 1, Len(StageStarts))
    /\ Has("fetch_image") =>
         /\ FieldGiven(job, "input_image_url")
         /\ FieldGiven(job, "input_audio_url")
         /\ Has("mkdtemp")
    /\ Has("fetch_audio") => Has("image_ok")
    /\ Has("synthesize") => Has("audio_ok")
    /\ Has("publish") => Has("synth_ok")
    /\ Has("upload_file") => Has("image_ok") /\ Has("audio_ok") /\ Has("synth_ok")

\* All four stages were started.
C5_Witness == StageStarts = StageOrder /\ Has("upload_file") /\ pc = "upload_pending"

\* C6: the first stage with an error outcome decides the result, with the
\* message of that stage; no later stage runs and the removal of the
\* scratch directory is still called.
C6_ShortCircuit ==
    pc = "done" /\ temp_dir # 0 =>
        /\ Has("fetch_image") /\ ~Has("image_ok") =>
             /\ Truthy(error)
             /\ returned = [error |-> "Failed to download image: " \o error.v]
             /\ StageStarts = <<"fetch_image">>
        /\ Has("fetch_audio") /\ ~Has("audio_ok") =>
             /\ Truthy(error)
             /\ returned = [error |-> "Failed to download audio: " \o error.v]
             /\ StageStarts = <<"fetch_image", "fetch_audio">>
        /\ Has("synthesize") /\ ~Has("synth_ok") =>
             /\ Truthy(error)
             /\ returned = [error |-> error.v]
             /\ StageStarts = <<"fetch_image", "fetch_audio", "synthesize">>
        /\ Has("publish") /\ ~Has("uploaded") =>
             /\ Truthy(error)
             /\ returned = [error |-> error.v]
        /\ IsErrorShape(returned) => Count("rmtree") = 1

\* The audio download failed and the job returned its error.
C6_Witness ==
    /\ pc = "done"
    /\ Has("audio_RequestException")
    /\ returned = ErrorResult("Failed to download audio: Download failed: d1")
    /\ Has("rmtree")

\* C7: every invocation of handler eventually returns.
C7_EventuallyReturns == (pc = "validate") ~> (pc = "done")

\* C8: when the image download times out the result is exactly
\* {error: "Failed to download image: Download timeout after 60 seconds"}
\* and neither the audio fetch nor synthesis nor publish is started.
C8_ImageTimeout ==
    Has("image_Timeout") =>
        /\ StageStarts = <<"fetch_image">>
        /\ ~Has("spawn_inference") /\ ~Has("spawn_ffmpeg") /\ ~Has("upload_file")
        /\ pc \in {"finally", "done", "idle"}
        /\ pc = "done" =>
             returned = ErrorResult(
                 "Failed to download image: Download timeout after 60 seconds")

\* The image download timed out and the job has returned.
C8_Witness ==
    /\ pc = "done"
    /\ Has("image_Timeout")
    /\ IsErrorShape(returned)
    /\ temp_dir \notin fsDirs

\* C9: when the model directory is absent the result is exactly
\* {error: "MuseTalk models not found - run model download first"}, no
\* subprocess is started and no upload is attempted.
C9_ModelsMissing ==
    Has("model_dir_absent") =>
        /\ ~Has("spawn_inference") /\ ~Has("spawn_ffmpeg")
        /\ ~Has("publish") /\ ~Has("s3_client") /\ ~Has("upload_file")
        /\ pc \in {"finally", "done", "idle"}
        /\ pc = "done" =>
             returned = ErrorResult(
                 "MuseTalk models not found - run model download first")

\* Both fetches succeeded, the model directory was absent, the job returned.
C9_Witness ==
    /\ pc = "done"
    /\ Has("image_ok") /\ Has("audio_ok")
    /\ Has("model_dir_absent")
    /\ IsErrorShape(returned)

\* C10: with the inference script present ffmpeg is never run, whatever
\* the inference process does; ffmpeg is run only with the script absent;
\* at most one subprocess is started per synthesis call.
C10_ExclusiveStrategy ==
    /\ Has("script_present") => ~Has("spawn_ffmpeg")
    /\ Has("spawn_ffmpeg") => Has("script_absent")
    /\ Has("spawn_inference") => Has("script_present")
    /\ Count("spawn_inference") + Count("spawn_ffmpeg") <= 1
    /\ Count("synthesize") <= 1

\* The inference process failed and the job returned without ffmpeg.
C10_Witness ==
    /\ pc = "done"
    /\ Has("spawn_inference")
    /\ Has("inference_exit")
    /\ ~Has("synth_ok")
    /\ ~Has("spawn_ffmpeg")
\* C11: when the model directory exists, the inference script is absent
\* and ffmpeg exits with code 0, synthesis succeeds (no error, the pipeline
\* goes on to publish) and, when the upload then succeeds, the job result
\* is the success shape with a non-empty output_video_url.
C11_FallbackSucceeds ==
    Has("spawn_ffmpeg") /\ Has("returncode_0") =>
        /\ Has("model_dir_present") /\ Has("script_absent")
        /\ Has("image_ok") /\ Has("audio_ok")
        /\ Has("synth_ok")
        /\ pc = "upload" => error = PyNone
        /\ pc \notin {"finally", "done", "idle"} \/ Has("publish")
        /\ pc = "done" /\ Has("uploaded") =>
             /\ IsSuccessShape(returned)
             /\ returned.output_video_url # ""

\* ffmpeg exited with code 0, the upload succeeded and the job returned.
C11_Witness ==
    /\ pc = "done"
    /\ Has("spawn_ffmpeg") /\ Has("returncode_0")
    /\ Has("uploaded")
    /\ IsSuccessShape(returned)

\* The environment, read as data: both variables of a pair are set.
PrimaryPairSet == {"BUCKET_ACCESS_KEY_ID", "BUCKET_SECRET_ACCESS_KEY"} \subseteq DOMAIN env
FallbackPairSet == {"RUNPOD_S3_ACCESS_KEY", "RUNPOD_S3_SECRET_KEY"} \subseteq DOMAIN env
ExpectedKeys == IF PrimaryPairSet THEN <<"AK1", "SK1">> ELSE <<"AK2", "SK2">>

\* C12 as stated: publish creates its client with the primary pair when
\* both are set, otherwise with the fallback pair; when neither pair is
\* complete it returns "S3 credentials not configured" and creates no
\* client and makes no network call.
C12_CredentialResolution ==
    Has("publish") =>
        IF PrimaryPairSet \/ FallbackPairSet
        THEN Has("s3_client") => client_keys = ExpectedKeys
        ELSE /\ error = PyStr("S3 credentials not configured")
             /\ ~Has("s3_client") /\ ~Has("upload_file") /\ ~Has("uploaded")
             /\ client_keys = <<>>

\* C12 amended: as stated, except that with neither pair complete the
\* error is "S3 credentials not configured" only when the storage library
\* could be imported; when the import fails the error is "S3 upload failed:
\* <detail>".  In both cases no client is created and no network call is
\* made.  With a complete pair and the library imported a client is created.
C12_CredentialResolutionAmended ==
    Has("publish") =>
        IF PrimaryPairSet \/ FallbackPairSet
        THEN /\ Has("s3_client") => client_keys = ExpectedKeys
             /\ ~Has("boto3_import_failed") => Has("s3_client")
        ELSE /\ IF Has("boto3_import_failed")
                THEN error \in {PyStr("S3 upload failed: " \o d) : d \in Details}
                ELSE error = PyStr("S3 credentials not configured")
             /\ ~Has("s3_client") /\ ~Has("upload_file") /\ ~Has("uploaded")
             /\ client_keys = <<>>

\* Only half of the primary pair is set, no fallback pair: publish returned
\* the credentials error without creating a client.
C12_Witness ==
    /\ pc = "done"
    /\ Has("publish")
    /\ "BUCKET_ACCESS_KEY_ID" \in DOMAIN env
    /\ ~PrimaryPairSet /\ ~FallbackPairSet
    /\ returned = ErrorResult("S3 credentials not configured")
    /\ client_keys = <<>>
\* The job descriptor and the environment, read as data.
JobIdOf(j) == IF "id" \in DOMAIN j.v THEN j.v["id"] ELSE PyStr("unknown")
ExpectedBucket == IF "RUNPOD_S3_BUCKET" \in DOMAIN env THEN "b1" ELSE "flowsmartly-avatars"
ExpectedPrimaryEndpoint ==
    IF "BUCKET_ENDPOINT_URL" \in DOMAIN env THEN "https://e1" ELSE "https://storage.runpod.io"
ExpectedEndpoint ==
    IF PrimaryPairSet \/ "RUNPOD_S3_ENDPOINT" \notin DOMAIN env
    THEN ExpectedPrimaryEndpoint
    ELSE "https://e2"

\* C13: when all four stages succeed the result is exactly
\* {output_video_url, status: "completed", model: "musetalk", job_id} with
\* job_id the id of the job ("unknown" when the job gives none) and
\* output_video_url = <endpoint>/<bucket>/musetalk/<job_id>.mp4, where the
\* endpoint is the one the storage client was created for; the result is a
\* function of the job and the configuration.
C13_SuccessResult ==
    pc = "done" /\ Has("uploaded") =>
        /\ endpoint_url = ExpectedEndpoint
        /\ client_keys = ExpectedKeys
        /\ returned =
             [output_video_url |->
                  endpoint_url \o "/" \o ExpectedBucket \o "/musetalk/"
                      \o JobIdOf(job).v \o ".mp4",
              status |-> "completed",
              model |-> "musetalk",
              job_id |-> JobIdOf(job)]

\* Primary strategy, fallback credentials and endpoint, bucket b1, job j1.
C13_Witness ==
    /\ pc = "done"
    /\ Has("spawn_inference") /\ Has("uploaded")
    /\ IsSuccessShape(returned)
    /\ returned.output_video_url = "https://e2/b1/musetalk/j1.mp4"
    /\ returned.job_id = PyStr("j1")

\* C14: the result handler returns is the result that was determined
\* before the scratch directory was removed (the success result after a
\* completed upload, otherwise the error of the failed stage), whether or
\* not the removal raised.
C14_CleanupKeepsResult ==
    pc = "done" /\ Has("rmtree") =>
        /\ returned = result
        /\ ~escaped
        /\ IF Has("uploaded")
           THEN IsSuccessShape(returned)
           ELSE /\ Truthy(error)
                /\ returned \in {ErrorResult(error.v),
                                 ErrorResult("Failed to download image: " \o error.v),
                                 ErrorResult("Failed to download audio: " \o error.v)}

\* The removal raised after a completed upload; the success result stands.
C14_Witness ==
    /\ pc = "done"
    /\ Has("uploaded") /\ Has("rmtree_raised")
    /\ temp_dir \in fsDirs
    /\ IsSuccessShape(returned)
\* The job descriptor, read as data: the job or its "input" is no mapping.
Malformed(j) == j.t # "dict" \/ ("input" \in DOMAIN j.v /\ j.v["input"].t # "dict")
OffendingObject(j) == IF j.t # "dict" THEN j ELSE j.v["input"]
HandlerErrors ==
    {ErrorResult("Handler error: " \o d) : d \in Details}
    \cup {ErrorResult("Handler error: '" \o t \o "' object has no attribute 'get'") :
            t \in {"NoneType", "str"}}

PrimaryFailureResults ==
    {ErrorResult("Video generation timeout (>5 minutes)"),
     ErrorResult("No output video generated")}
    \cup {ErrorResult("MuseTalk inference failed: " \o d) : d \in Details}
    \cup {ErrorResult("Video generation error: " \o d) : d \in Details}

\* C16: every failure of the ffmpeg step, a non-zero exit as well as its
\* timeout, is reported as "FFmpeg test video failed: ...", a result no
\* failure or timeout of the primary strategy produces.
C16_FallbackFailed ==
    pc = "done" /\ Has("spawn_ffmpeg") /\ ~Has("synth_ok") =>
        /\ returned \notin PrimaryFailureResults
        /\ Has("returncode_1") =>
             returned \in {ErrorResult("FFmpeg test video failed: " \o d) : d \in Details}

\* C17: within one invocation the scratch directory is created at most
\* once and each stage is attempted at most once: one fetch of the image,
\* one of the audio, one synthesis call with at most one subprocess, one
\* upload; nothing is started again after a stage failed.
C17_NoRetries ==
    /\ \A e \in {"mkdtemp", "fetch_image", "fetch_audio", "synthesize", "publish",
                 "s3_client", "upload_file", "rmtree"} : Count(e) <= 1
    /\ Count("spawn_inference") + Count("spawn_ffmpeg") <= 1
    /\ Truthy(error) => pc \in {"finally", "done", "idle"}

\* The audio download timed out and was not attempted again.
C17_Witness ==
    /\ pc = "done"
    /\ Has("audio_Timeout")
    /\ Count("fetch_image") = 1 /\ Count("fetch_audio") = 1
    /\ ~Has("synthesize")

\* C18: an error result implies that no upload completed in this
\* invocation; a completed upload implies the success result.
C18_PublishAtomic ==
    pc = "done" =>
        /\ IsErrorShape(returned) => ~Has("uploaded")
        /\ Has("uploaded") => IsSuccessShape(returned)

\* The upload was started and failed; the job returned its error.
C18_Witness ==
    /\ pc = "done"
    /\ Has("upload_file") /\ Has("upload_failed")
    /\ returned = ErrorResult("S3 upload failed: d2")

\* C19: between jobs the process-wide state of the worker equals its
\* initial state: nothing was added to the module search path.
C19_ProcessStateUnchanged == pc = "idle" => sysPath = <<>>
====
